---------------------------- MODULE Spec2Model ----------------------------
(***************************************************************************)
(* Model of the form-field training corpus pipeline                        *)
(* (packages/model-training/src): the feature extractor of features.py     *)
(* and the corpus builder, augmentation stage and serializer of            *)
(* dataset.py.                                                             *)
(*                                                                         *)
(* Texts (attribute values, patterns) are sequences of one-character       *)
(* strings.  Numbers held in feature slots are exact rationals <<n, d>>    *)
(* in lowest terms; the float32 conversion of to_vector is computed by     *)
(* F32.  Objects that the code shares by reference (FieldFeatures          *)
(* instances) live in `heap` and are named by their index.                 *)
(***************************************************************************)
EXTENDS Integers, Sequences, FiniteSets, TLC

VARIABLES
    samples,      \* augment_dataset: the caller's list of base samples
    target_size,  \* augment_dataset: the requested corpus size
    augmented,    \* augment_dataset: the list being grown (dataset.py:339)
    heap,         \* the FieldFeatures instances, by identity
    base,         \* augment_dataset: index of the last random.choice pick
    rng,          \* parity of the number of draws taken from the generator
    pc,           \* control point of the dataset.py run
    data,         \* save_dataset: the rows handed to json.dump
    dropout,      \* augment_dataset: whether the last iteration's first
                  \* random.random() was below 0.3
    perturb,      \* augment_dataset: whether the last iteration's second
                  \* test (random.random() < 0.2 and label "username") held
    catalog,      \* build_dataset: TEST_SITES and NEGATIVE_EXAMPLES as read
    soup,         \* extract_features_from_html: the parsed document
    results,      \* extract_features_from_html: the returned list
    text,         \* _match_score: the text argument of a direct call
    patterns,     \* _match_score: the pattern list of a direct call
    score,        \* _match_score: the value returned by the direct call
    xpc           \* control point of the features.py run

vars == <<samples, target_size, augmented, heap, base, rng, pc, data,
          dropout, perturb, catalog, soup, results, text, patterns, score, xpc>>

augVars == <<samples, target_size, augmented, heap, base, rng, pc, data,
             dropout, perturb, catalog>>
extVars == <<soup, results, text, patterns, score, xpc>>

-----------------------------------------------------------------------------
(* Bounds of the model.                                                    *)

\* longest base corpus handed to augment_dataset
MaxBase == 2
\* largest target_size handed to augment_dataset
MaxTarget == 4
\* most nodes of a parsed document whose structure is varied
MaxNodes == 3
\* longest text of a direct _match_score call over the probe alphabet
MaxTextLen == 3
\* longest pattern list of a direct _match_score call
MaxPatterns == 4
\* most entries of TEST_SITES read by a build_dataset run
MaxSites == 2
\* most entries of NEGATIVE_EXAMPLES read by a build_dataset run
MaxNegatives == 2

-----------------------------------------------------------------------------
(* Exact rational arithmetic for the float-valued slots.                   *)

RECURSIVE GCD(_, _)
GCD(a, b) == IF b = 0 THEN a ELSE GCD(b, a % b)

\* n/d in lowest terms (n >= 0, d > 0)
Rat(n, d) == LET g == GCD(n, d) IN <<n \div g, d \div g>>

Zero == Rat(0, 1)
One == Rat(1, 1)

RatLeq(a, b) == a[1] * b[2] <= b[1] * a[2]
RatMin(a, b) == IF RatLeq(a, b) THEN a ELSE b
RatTimes(a, k) == Rat(a[1] * k, a[2])

\* smallest s >= s0 with 2^23 <= (p/q) * 2^s: the scaling of a float32
\* mantissa
RECURSIVE F32Shift(_, _, _)
F32Shift(p, q, s) == IF p * 2^s >= q * 2^23 THEN s ELSE F32Shift(p, q, s + 1)

\* m / 2^s in lowest terms
RECURSIVE Dyadic(_, _)
Dyadic(m, s) ==
    IF s > 0 /\ m % 2 = 0 THEN Dyadic(m \div 2, s - 1) ELSE <<m, 2^s>>

\* the mantissa of p/q at scaling s, rounded to nearest, ties to even
F32Round(p, q, s) ==
    LET m0 == (p * 2^s) \div q
        rem == (p * 2^s) % q
    IN IF 2 * rem > q \/ (2 * rem = q /\ m0 % 2 = 1) THEN m0 + 1 ELSE m0

\* numpy's conversion to dtype=float32 of a value 0 <= p/q < 2^24 with
\* q < 128; an integer in that range is a float32 as it stands, and a
\* value below 1 needs a scaling of at least 24
F32At(p, q, s) == Dyadic(F32Round(p, q, s), s)

F32(r) ==
    IF r[2] = 1 THEN r
    ELSE F32At(r[1], r[2], F32Shift(r[1], r[2], IF r[1] < r[2] THEN 24 ELSE 0))

-----------------------------------------------------------------------------
(* Text operations.                                                        *)

UpperChars == <<"A","B","C","D","E","F","G","H","I","J","K","L","M",
                "N","O","P","Q","R","S","T","U","V","W","X","Y","Z">>
LowerChars == <<"a","b","c","d","e","f","g","h","i","j","k","l","m",
                "n","o","p","q","r","s","t","u","v","w","x","y","z">>

LowerChar(c) ==
    IF \E k \in 1..Len(UpperChars) : UpperChars[k] = c
    THEN LowerChars[CHOOSE k \in 1..Len(UpperChars) : UpperChars[k] = c]
    ELSE c

\* str.lower()
lower(t) == [k \in 1..Len(t) |-> LowerChar(t[k])]

\* Python's `sub in t` on strings
Contains(sub, t) ==
    \E k \in 0..(Len(t) - Len(sub)) :
        \A j \in 1..Len(sub) : t[k + j] = sub[j]

\* re.compile(p, re.I).search(t) for a pattern p without metacharacters
search(p, t) == Contains(lower(p), lower(t))

-----------------------------------------------------------------------------
(* FieldFeatures (features.py:13-161).                                     *)

\* the dataclass fields, in declaration order
FieldFeatures_fields ==
    << "type_text", "type_email", "type_password", "type_tel", "type_number",
       "type_search", "type_url", "type_other",
       "auto_username", "auto_email", "auto_current_password",
       "auto_new_password", "auto_one_time_code", "auto_off", "auto_other",
       "name_has_user", "name_has_login", "name_has_email", "name_has_pass",
       "name_length",
       "id_has_user", "id_has_login", "id_has_email", "id_has_pass",
       "id_length",
       "placeholder_has_user", "placeholder_has_email",
       "placeholder_has_pass", "placeholder_length",
       "aria_label_has_user", "aria_label_has_email", "aria_label_has_pass",
       "aria_label_length",
       "parent_is_form", "parent_is_div", "parent_is_section",
       "sibling_count", "has_password_sibling", "has_email_sibling",
       "form_has_submit", "form_action_has_login",
       "is_required", "has_placeholder", "has_aria_label",
       "inputmode_numeric" >>

\* the attributes read by to_vector, in the order it lists them
to_vector_order ==
    << "type_text", "type_email", "type_password", "type_tel", "type_number",
       "type_search", "type_url", "type_other",
       "auto_username", "auto_email", "auto_current_password",
       "auto_new_password", "auto_one_time_code", "auto_off", "auto_other",
       "name_has_user", "name_has_login", "name_has_email", "name_has_pass",
       "name_length",
       "id_has_user", "id_has_login", "id_has_email", "id_has_pass",
       "id_length",
       "placeholder_has_user", "placeholder_has_email",
       "placeholder_has_pass", "placeholder_length",
       "aria_label_has_user", "aria_label_has_email", "aria_label_has_pass",
       "aria_label_length",
       "parent_is_form", "parent_is_div", "parent_is_section",
       "sibling_count", "has_password_sibling", "has_email_sibling",
       "form_has_submit", "form_action_has_login",
       "is_required", "has_placeholder", "has_aria_label",
       "inputmode_numeric" >>

\* FieldFeatures.feature_names(): the schema, slot by slot
feature_names ==
    << "type_text", "type_email", "type_password", "type_tel", "type_number",
       "type_search", "type_url", "type_other",
       "auto_username", "auto_email", "auto_current_password",
       "auto_new_password", "auto_one_time_code", "auto_off", "auto_other",
       "name_has_user", "name_has_login", "name_has_email", "name_has_pass",
       "name_length",
       "id_has_user", "id_has_login", "id_has_email", "id_has_pass",
       "id_length",
       "placeholder_has_user", "placeholder_has_email",
       "placeholder_has_pass", "placeholder_length",
       "aria_label_has_user", "aria_label_has_email", "aria_label_has_pass",
       "aria_label_length",
       "parent_is_form", "parent_is_div", "parent_is_section",
       "sibling_count", "has_password_sibling", "has_email_sibling",
       "form_has_submit", "form_action_has_login",
       "is_required", "has_placeholder", "has_aria_label",
       "inputmode_numeric" >>

FieldNames == {FieldFeatures_fields[k] : k \in 1..Len(FieldFeatures_fields)}

\* the methods of the class, which dir() lists beside the fields
MethodNames == {"to_vector", "feature_names"}

\* How a method name of an instance is recorded: NotShadowed while the
\* instance has no attribute of that name (lookup goes to the class);
\* otherwise the stored bound method, named by its receiver: a heap index
\* for to_vector, TheClass for the classmethod feature_names.
NotShadowed == 0
TheClass == -1

\* FieldFeatures(): every field at its default, no method shadowed
FieldFeatures ==
    [a \in FieldNames \cup MethodNames |->
        IF a \in MethodNames THEN NotShadowed ELSE Zero]

\* setattr(obj, attr, value)
setattr(obj, attr, value) == [obj EXCEPT ![attr] = value]

\* getattr(h[id], attr): a field's value; for a method, the instance
\* attribute when one shadows it, else the class's method bound on lookup
getattr(h, id, attr) ==
    IF attr \in MethodNames /\ h[id][attr] = NotShadowed
    THEN (IF attr = "to_vector" THEN id ELSE TheClass)
    ELSE h[id][attr]

\* [attr for attr in dir(obj) if not attr.startswith("_")]
dir_public(obj) == DOMAIN obj

\* FieldFeatures.to_vector(self) for self = h[id]: the listed attributes,
\* converted by np.array(..., dtype=np.float32)
FieldFeatures_to_vector(h, id) ==
    [k \in 1..Len(to_vector_order) |-> F32(h[id][to_vector_order[k]])]

\* the call h[id].to_vector(): runs the method that the name resolves to
call_to_vector(h, id) == FieldFeatures_to_vector(h, getattr(h, id, "to_vector"))

-----------------------------------------------------------------------------
(* FeatureExtractor (features.py:164-334).                                 *)

USERNAME_PATTERNS ==
    << <<"u","s","e","r">>, <<"l","o","g","i","n">>, <<"u","s","r">>, <<"u","n","a","m","e">>, <<"a","c","c","o","u","n","t">>, <<"a","c","c","t">>, <<"s","i","g","n","i","n">>,
       <<"s","i","g","n","-","i","n">>, <<"s","e","s","s","i","o","n">>, <<"m","e","m","b","e","r">>, <<"a","l","i","a","s">> >>

EMAIL_PATTERNS == << <<"e","m","a","i","l">>, <<"e","-","m","a","i","l">>, <<"m","a","i","l">> >>

PASSWORD_PATTERNS ==
    << <<"p","a","s","s">>, <<"p","a","s","s","w","o","r","d">>, <<"p","w","d">>, <<"s","e","c","r","e","t">>, <<"p","a","s","s","p","h","r","a","s","e">>, <<"k","e","y">>,
       <<"c","r","e","d","e","n","t","i","a","l">> >>

\* the one-pattern list built inline for the *_has_login slots
LOGIN_PATTERNS == << <<"l","o","g","i","n">> >>

\* Tag.get(key, default) on a node of the parsed document
get(elem, key, default) ==
    IF key \in DOMAIN elem.attrs THEN elem.attrs[key] ELSE default

\* the value of Tag.get(key) when the attribute is absent
None == <<"None">>

\* sum(1 for p in patterns if p.search(text))
RECURSIVE count_matches(_, _)
count_matches(t, pats) ==
    IF pats = <<>> THEN 0
    ELSE (IF search(Head(pats), t) THEN 1 ELSE 0) + count_matches(t, Tail(pats))

\* the factor that stretches matches / len(patterns)
MatchScale == 3

\* _match_score without the min(..., 1.0)
_match_score_unclamped(t, pats) ==
    IF t = <<>> THEN Zero
    ELSE LET matches == count_matches(t, pats)
         IN IF pats # <<>>
            THEN RatTimes(Rat(matches, Len(pats)), MatchScale)
            ELSE Zero

_match_score(t, pats) ==
    IF t = <<>> THEN Zero
    ELSE LET matches == count_matches(t, pats)
         IN IF pats # <<>>
            THEN RatMin(RatTimes(Rat(matches, Len(pats)), MatchScale), One)
            ELSE Zero

type_mapping ==
    [t \in {<<"t","e","x","t">>, <<"e","m","a","i","l">>, <<"p","a","s","s","w","o","r","d">>, <<"t","e","l">>, <<"n","u","m","b","e","r">>, <<"s","e","a","r","c","h">>, <<"u","r","l">>} |->
        CASE t = <<"t","e","x","t">> -> "type_text"
          [] t = <<"e","m","a","i","l">> -> "type_email"
          [] t = <<"p","a","s","s","w","o","r","d">> -> "type_password"
          [] t = <<"t","e","l">> -> "type_tel"
          [] t = <<"n","u","m","b","e","r">> -> "type_number"
          [] t = <<"s","e","a","r","c","h">> -> "type_search"
          [] t = <<"u","r","l">> -> "type_url"]

\* _set_input_type without its else branch
_set_input_type_no_fallback(features, input_type) ==
    IF input_type \in DOMAIN type_mapping
    THEN setattr(features, type_mapping[input_type], One)
    ELSE features

_set_input_type(features, input_type) ==
    IF input_type \in DOMAIN type_mapping
    THEN setattr(features, type_mapping[input_type], One)
    ELSE setattr(features, "type_other", One)

\* _set_autocomplete with a chain of independent ifs in place of the elifs
_set_autocomplete_independent(features, autocomplete) ==
    LET auto == lower(autocomplete)
        hit == [a \in {"auto_username", "auto_email", "auto_current_password",
                       "auto_new_password", "auto_one_time_code", "auto_off"} |->
                  CASE a = "auto_username" -> Contains(<<"u","s","e","r","n","a","m","e">>, auto)
                    [] a = "auto_email" -> Contains(<<"e","m","a","i","l">>, auto)
                    [] a = "auto_current_password" -> Contains(<<"c","u","r","r","e","n","t","-","p","a","s","s","w","o","r","d">>, auto)
                    [] a = "auto_new_password" -> Contains(<<"n","e","w","-","p","a","s","s","w","o","r","d">>, auto)
                    [] a = "auto_one_time_code" -> Contains(<<"o","n","e","-","t","i","m","e","-","c","o","d","e">>, auto)
                    [] a = "auto_off" -> auto = <<"o","f","f">>]
    IN [a \in DOMAIN features |->
          IF a \in DOMAIN hit THEN (IF hit[a] THEN One ELSE features[a])
          ELSE IF a = "auto_other"
               THEN (IF \E b \in DOMAIN hit : hit[b] THEN features[a] ELSE One)
          ELSE features[a]]

\* _set_autocomplete with the email test ahead of the username test
_set_autocomplete_email_first(features, autocomplete) ==
    LET auto == lower(autocomplete)
    IN IF Contains(<<"e","m","a","i","l">>, auto) THEN setattr(features, "auto_email", One)
       ELSE IF Contains(<<"u","s","e","r","n","a","m","e">>, auto) THEN setattr(features, "auto_username", One)
       ELSE IF Contains(<<"c","u","r","r","e","n","t","-","p","a","s","s","w","o","r","d">>, auto)
            THEN setattr(features, "auto_current_password", One)
       ELSE IF Contains(<<"n","e","w","-","p","a","s","s","w","o","r","d">>, auto)
            THEN setattr(features, "auto_new_password", One)
       ELSE IF Contains(<<"o","n","e","-","t","i","m","e","-","c","o","d","e">>, auto)
            THEN setattr(features, "auto_one_time_code", One)
       ELSE IF auto = <<"o","f","f">> THEN setattr(features, "auto_off", One)
       ELSE setattr(features, "auto_other", One)

_set_autocomplete(features, autocomplete) ==
    LET auto == lower(autocomplete)
    IN IF Contains(<<"u","s","e","r","n","a","m","e">>, auto) THEN setattr(features, "auto_username", One)
       ELSE IF Contains(<<"e","m","a","i","l">>, auto) THEN setattr(features, "auto_email", One)
       ELSE IF Contains(<<"c","u","r","r","e","n","t","-","p","a","s","s","w","o","r","d">>, auto)
            THEN setattr(features, "auto_current_password", One)
       ELSE IF Contains(<<"n","e","w","-","p","a","s","s","w","o","r","d">>, auto)
            THEN setattr(features, "auto_new_password", One)
       ELSE IF Contains(<<"o","n","e","-","t","i","m","e","-","c","o","d","e">>, auto)
            THEN setattr(features, "auto_one_time_code", One)
       ELSE IF auto = <<"o","f","f">> THEN setattr(features, "auto_off", One)
       ELSE setattr(features, "auto_other", One)

\* 1 if cond else 0
Flag(cond) == IF cond THEN One ELSE Zero

\* input_elem.find_parent(): the index of node i's parent, 0 for the
\* document object itself, which is a Tag too and is truthy (nodes are
\* listed in document order with their depths)
find_parent(doc, i) ==
    IF doc[i].depth = 0 THEN 0
    ELSE CHOOSE j \in 1..(i - 1) :
            /\ doc[j].depth = doc[i].depth - 1
            /\ \A k \in (j + 1)..(i - 1) : doc[k].depth >= doc[i].depth

\* parent.name of the node at index p; the document object is "[document]"
tag_name(doc, p) == IF p = 0 THEN "[document]" ELSE doc[p].tag

\* whether node a is a proper ancestor of node i (a = 0: the document)
RECURSIVE is_ancestor(_, _, _)
is_ancestor(doc, a, i) ==
    IF i = 0 THEN FALSE
    ELSE LET p == find_parent(doc, i)
         IN p = a \/ is_ancestor(doc, a, p)

\* the indices in S, in increasing (document) order
RECURSIVE in_order(_)
in_order(S) ==
    IF S = {} THEN <<>>
    ELSE LET m == CHOOSE x \in S : \A y \in S : x <= y
         IN <<m>> \o in_order(S \ {m})

\* parent.find_all("input", recursive=False): the direct child inputs
find_all_children(doc, p, tag) ==
    in_order({j \in 1..Len(doc) : doc[j].tag = tag /\ find_parent(doc, j) = p})

\* input_elem.find_parent("form"): the nearest enclosing form, 0 for None
find_parent_form(doc, i) ==
    LET forms == {j \in 1..Len(doc) : doc[j].tag = "form" /\ is_ancestor(doc, j, i)}
    IN IF forms = {} THEN 0
       ELSE CHOOSE j \in forms : \A k \in forms : k <= j

\* form.find(["button", "input"], attrs={"type": "submit"}) is not None
form_find_submit(doc, form) ==
    \E j \in 1..Len(doc) :
        /\ is_ancestor(doc, form, j)
        /\ doc[j].tag \in {"button", "input"}
        /\ "type" \in DOMAIN doc[j].attrs
        /\ doc[j].attrs["type"] = <<"s","u","b","m","i","t">>

\* re.search(r"login|signin|auth|session", action, re.I)
action_has_login(action) ==
    \/ search(<<"l","o","g","i","n">>, action)
    \/ search(<<"s","i","g","n","i","n">>, action)
    \/ search(<<"a","u","t","h">>, action)
    \/ search(<<"s","e","s","s","i","o","n">>, action)

\* Tag.__ne__: bs4 compares tags by name, attributes and contents, not by
\* identity; an input element has no contents
tag_ne(doc, a, b) == doc[a].tag # doc[b].tag \/ doc[a].attrs # doc[b].attrs

\* the loop over siblings: whether some sibling other than the element
\* has the given lower-cased type
sibling_has_type(doc, siblings, i, t) ==
    \E k \in 1..Len(siblings) :
        /\ tag_ne(doc, siblings[k], i)
        /\ lower(get(doc[siblings[k]], "type", <<>>)) = t

\* the divisor that normalizes the sibling count
SiblingScale == 10

_extract_context_features(features, doc, i) ==
    LET parent == find_parent(doc, i)
        parent_name == tag_name(doc, parent)
        siblings == find_all_children(doc, parent, "input")
        f1 == [features EXCEPT
                 !["parent_is_form"] = Flag(parent_name = "form"),
                 !["parent_is_div"] = Flag(parent_name = "div"),
                 !["parent_is_section"] = Flag(parent_name = "section"),
                 !["sibling_count"] = Rat(Len(siblings), SiblingScale),
                 !["has_password_sibling"] =
                     IF sibling_has_type(doc, siblings, i, <<"p","a","s","s","w","o","r","d">>)
                     THEN One ELSE @,
                 !["has_email_sibling"] =
                     IF sibling_has_type(doc, siblings, i, <<"e","m","a","i","l">>)
                     THEN One ELSE @]
        form == find_parent_form(doc, i)
    IN IF form # 0
       THEN [f1 EXCEPT
               !["form_has_submit"] = Flag(form_find_submit(doc, form)),
               !["form_action_has_login"] =
                   Flag(action_has_login(get(doc[form], "action", <<>>)))]
       ELSE f1

\* the divisors that normalize the text lengths
NameLengthScale == 50
IdLengthScale == 50
PlaceholderLengthScale == 100
AriaLabelLengthScale == 100

extract_from_element(doc, i) ==
    LET input_elem == doc[i]
        input_type == lower(get(input_elem, "type", <<"t","e","x","t">>))
        autocomplete == get(input_elem, "autocomplete", <<>>)
        name == get(input_elem, "name", <<>>)
        elem_id == get(input_elem, "id", <<>>)
        placeholder == get(input_elem, "placeholder", <<>>)
        aria_label == get(input_elem, "aria-label", <<>>)
        required == get(input_elem, "required", None)
        f1 == _set_input_type(FieldFeatures, input_type)
        f2 == _set_autocomplete(f1, autocomplete)
        f3 == [f2 EXCEPT
                 !["name_has_user"] = _match_score(name, USERNAME_PATTERNS),
                 !["name_has_login"] = _match_score(name, LOGIN_PATTERNS),
                 !["name_has_email"] = _match_score(name, EMAIL_PATTERNS),
                 !["name_has_pass"] = _match_score(name, PASSWORD_PATTERNS),
                 !["name_length"] = Rat(Len(name), NameLengthScale),
                 !["id_has_user"] = _match_score(elem_id, USERNAME_PATTERNS),
                 !["id_has_login"] = _match_score(elem_id, LOGIN_PATTERNS),
                 !["id_has_email"] = _match_score(elem_id, EMAIL_PATTERNS),
                 !["id_has_pass"] = _match_score(elem_id, PASSWORD_PATTERNS),
                 !["id_length"] = Rat(Len(elem_id), IdLengthScale),
                 !["placeholder_has_user"] =
                     _match_score(placeholder, USERNAME_PATTERNS),
                 !["placeholder_has_email"] =
                     _match_score(placeholder, EMAIL_PATTERNS),
                 !["placeholder_has_pass"] =
                     _match_score(placeholder, PASSWORD_PATTERNS),
                 !["placeholder_length"] =
                     Rat(Len(placeholder), PlaceholderLengthScale),
                 !["aria_label_has_user"] =
                     _match_score(aria_label, USERNAME_PATTERNS),
                 !["aria_label_has_email"] =
                     _match_score(aria_label, EMAIL_PATTERNS),
                 !["aria_label_has_pass"] =
                     _match_score(aria_label, PASSWORD_PATTERNS),
                 !["aria_label_length"] =
                     Rat(Len(aria_label), AriaLabelLengthScale)]
        f4 == _extract_context_features(f3, doc, i)
    IN [f4 EXCEPT
          !["is_required"] = Flag(required # None /\ required # <<>>),
          !["has_placeholder"] = Flag(placeholder # <<>>),
          !["has_aria_label"] = Flag(aria_label # <<>>),
          !["inputmode_numeric"] =
              Flag(get(input_elem, "inputmode", None) = <<"n","u","m","e","r","i","c">>)]

\* the skip list without "hidden"
SkippedTypes_without_hidden == {<<"s","u","b","m","i","t">>, <<"b","u","t","t","o","n">>, <<"i","m","a","g","e">>, <<"r","e","s","e","t">>}

\* the input types that extract_features_from_html skips
SkippedTypes == {<<"h","i","d","d","e","n">>, <<"s","u","b","m","i","t">>, <<"b","u","t","t","o","n">>, <<"i","m","a","g","e">>, <<"r","e","s","e","t">>}

\* soup.find_all("input"): every input element, in document order
find_all_inputs(doc) == in_order({j \in 1..Len(doc) : doc[j].tag = "input"})

\* the loop of extract_features_from_html over the elements found; `node`
\* records which element of the document a result was made from (the
\* code's dict has no such key)
RECURSIVE extract_loop(_, _)
extract_loop(doc, elems) ==
    IF elems = <<>> THEN <<>>
    ELSE LET i == Head(elems)
             input_elem == doc[i]
             input_type == lower(get(input_elem, "type", <<"t","e","x","t">>))
         IN IF input_type \in SkippedTypes
            THEN extract_loop(doc, Tail(elems))
            ELSE << [features |-> extract_from_element(doc, i),
                     element_id |-> get(input_elem, "id", <<>>),
                     element_name |-> get(input_elem, "name", <<>>),
                     input_type |-> input_type,
                     node |-> i] >>
                 \o extract_loop(doc, Tail(elems))

extract_features_from_html(doc) == extract_loop(doc, find_all_inputs(doc))

-----------------------------------------------------------------------------
(* The corpus builder (dataset.py:13-333).                                 *)

\* a node of a parsed document: tag name, attributes, nesting depth.  A
\* document lists its nodes in document order; depth 0 is a child of the
\* document itself.
Node(tag, depth, attrs) == [tag |-> tag, depth |-> depth, attrs |-> attrs]

NoAttrs == [k \in {} |-> <<>>]

\* TEST_SITES: the first entry and the 2FA entry of the catalog
TEST_SITES ==
    << [name |-> "GitHub Login",
        labels |-> (<<"l","o","g","i","n">> :> "username") @@ (<<"p","a","s","s","w","o","r","d">> :> "password"),
        html |-> <<
          Node("form", 0, ("action" :> <<"/","s","e","s","s","i","o","n">>) @@ ("method" :> <<"p","o","s","t">>)),
          Node("label", 1, ("for" :> <<"l","o","g","i","n","_","f","i","e","l","d">>)),
          Node("input", 1, ("type" :> <<"t","e","x","t">>) @@ ("name" :> <<"l","o","g","i","n">>)
                           @@ ("id" :> <<"l","o","g","i","n","_","f","i","e","l","d">>)
                           @@ ("autocomplete" :> <<"u","s","e","r","n","a","m","e">>)),
          Node("label", 1, ("for" :> <<"p","a","s","s","w","o","r","d">>)),
          Node("input", 1, ("type" :> <<"p","a","s","s","w","o","r","d">>) @@ ("name" :> <<"p","a","s","s","w","o","r","d">>)
                           @@ ("id" :> <<"p","a","s","s","w","o","r","d">>)
                           @@ ("autocomplete" :> <<"c","u","r","r","e","n","t","-","p","a","s","s","w","o","r","d">>)),
          Node("input", 1, ("type" :> <<"s","u","b","m","i","t">>) @@ ("name" :> <<"c","o","m","m","i","t">>)
                           @@ ("value" :> <<"S","i","g","n"," ","i","n">>)) >>],
       [name |-> "2FA/TOTP Form",
        labels |-> (<<"t","o","t","p","P","i","n">> :> "totp"),
        html |-> <<
          Node("form", 0, NoAttrs),
          Node("input", 1, ("type" :> <<"t","e","l">>) @@ ("name" :> <<"t","o","t","p","P","i","n">>)
                           @@ ("autocomplete" :> <<"o","n","e","-","t","i","m","e","-","c","o","d","e">>)
                           @@ ("inputmode" :> <<"n","u","m","e","r","i","c">>)
                           @@ ("pattern" :> <<"[","0","-","9","]","*">>)
                           @@ ("placeholder" :> <<"6","-","d","i","g","i","t"," ","c","o","d","e">>)),
          Node("button", 1, ("type" :> <<"s","u","b","m","i","t">>)) >>] >>

\* NEGATIVE_EXAMPLES: the first entry
NEGATIVE_EXAMPLES ==
    << [name |-> "Search Form",
        html |-> <<
          Node("form", 0, ("action" :> <<"/","s","e","a","r","c","h">>) @@ ("method" :> <<"g","e","t">>)),
          Node("input", 1, ("type" :> <<"t","e","x","t">>) @@ ("name" :> <<"q">>)
                           @@ ("placeholder" :> <<"S","e","a","r","c","h",".",".",".">>)),
          Node("button", 1, ("type" :> <<"s","u","b","m","i","t">>)) >>] >>

\* TrainingSample(features, label, source, element_id, element_name); the
\* source string is held as the sequence of the pieces it is built from
TrainingSample(features, label, source, element_id, element_name) ==
    [features |-> features, label |-> label, source |-> source,
     element_id |-> element_id, element_name |-> element_name]

\* labels.get without the lookup
labels_get_always_none(labels, element_name) == "none"

\* labels.get(element_name, "none")
labels_get(labels, element_name) ==
    IF element_name \in DOMAIN labels THEN labels[element_name] ELSE "none"

\* site.get("labels", {})
site_labels(site) ==
    IF "labels" \in DOMAIN site THEN site.labels ELSE [k \in {} |-> "none"]

\* the inner loop of build_dataset over one catalog entry
site_samples(site) ==
    LET res == extract_features_from_html(site.html)
        labels == site_labels(site)
    IN [k \in 1..Len(res) |->
          TrainingSample(res[k].features,
                         labels_get(labels, res[k].element_name),
                         <<site.name>>, res[k].element_id, res[k].element_name)]

\* the inner loop of build_dataset over one negative example
negative_samples(example) ==
    LET res == extract_features_from_html(example.html)
    IN [k \in 1..Len(res) |->
          TrainingSample(res[k].features, "none", <<example.name>>,
                         res[k].element_id, res[k].element_name)]

RECURSIVE flatten(_)
flatten(ss) == IF ss = <<>> THEN <<>> ELSE Head(ss) \o flatten(Tail(ss))

\* build_dataset over a catalog and a list of negative examples; each
\* sample carries its FieldFeatures object
build_dataset(sites, negatives) ==
    flatten([k \in 1..Len(sites) |-> site_samples(sites[k])])
    \o flatten([k \in 1..Len(negatives) |-> negative_samples(negatives[k])])

-----------------------------------------------------------------------------
(* The inputs of the extractor: parsed documents, and the arguments of     *)
(* direct _match_score calls.                                              *)

\* the attributes of an input element; None leaves the attribute out
InputAttrs(type, autocomplete, name, id, placeholder, aria_label, required, inputmode) ==
    LET all == ("type" :> type) @@ ("autocomplete" :> autocomplete)
               @@ ("name" :> name) @@ ("id" :> id)
               @@ ("placeholder" :> placeholder) @@ ("aria-label" :> aria_label)
               @@ ("required" :> required) @@ ("inputmode" :> inputmode)
    IN [k \in {x \in DOMAIN all : all[x] # None} |-> all[k]]

TypeValues ==
    {None, <<>>, <<"t","e","x","t">>, <<"e","m","a","i","l">>, <<"p","a","s","s","w","o","r","d">>, <<"t","e","l">>, <<"n","u","m","b","e","r">>, <<"s","e","a","r","c","h">>,
     <<"u","r","l">>, <<"h","i","d","d","e","n">>, <<"d","a","t","e">>, <<"P","A","S","S","W","O","R","D">>, <<"E","m","a","i","l">>, <<"S","u","b","m","i","t">>}

AutocompleteValues ==
    {None, <<>>, <<"u","s","e","r","n","a","m","e">>, <<"e","m","a","i","l">>, <<"c","u","r","r","e","n","t","-","p","a","s","s","w","o","r","d">>, <<"n","e","w","-","p","a","s","s","w","o","r","d">>,
     <<"o","n","e","-","t","i","m","e","-","c","o","d","e">>, <<"o","f","f">>, <<"O","F","F">>, <<"o","n">>, <<"o","f","f","l","i","n","e">>, <<"u","s","e","r","n","a","m","e"," ","e","m","a","i","l">>,
     <<"e","m","a","i","l"," ","u","s","e","r","n","a","m","e">>, <<"C","u","r","r","e","n","t","-","P","a","s","s","w","o","r","d">>, <<"s","e","c","t","i","o","n","-","a"," ","n","e","w","-","p","a","s","s","w","o","r","d">>,
     <<"o","n","e","-","t","i","m","e","-","c","o","d","e"," ","n","e","w","-","p","a","s","s","w","o","r","d">>, <<"s","h","i","p","p","i","n","g"," ","e","m","a","i","l">>}

NameValues ==
    {None, <<>>, <<"l","o","g","i","n">>, <<"u","s","e","r","n","a","m","e">>, <<"u","s","e","r","_","l","o","g","i","n">>, <<"e","m","a","i","l">>, <<"m","a","i","l">>,
     <<"P","a","s","s","w","d">>, <<"p","a","s","s","w","o","r","d","_","k","e","y","_","s","e","c","r","e","t">>, <<"u","s","e","r","L","o","g","i","n","I","d">>, <<"q">>,
     <<"a","c","c","o","u","n","t","_","s","i","g","n","i","n","_","u","s","e","r","_","l","o","g","i","n">>}

IdValues == {None, <<"l","o","g","i","n","_","f","i","e","l","d">>, <<"p","w","d">>, <<"e","-","m","a","i","l">>}

LabelValues ==
    {None, <<>>, <<"E","m","a","i","l">>, <<"U","s","e","r","n","a","m","e"," ","o","r"," ","e","m","a","i","l">>, <<"P","a","s","s","w","o","r","d">>, <<"6","-","d","i","g","i","t"," ","c","o","d","e">>}

RequiredValues == {None, <<>>, <<"r","e","q","u","i","r","e","d">>}

InputmodeValues == {None, <<"n","u","m","e","r","i","c">>, <<"N","u","m","e","r","i","c">>, <<"t","e","x","t">>}

\* input elements that vary the attributes the extractor reads
RichAttrs ==
    {InputAttrs(t, a, <<"l","o","g","i","n">>, None, None, None, None, None) :
        t \in TypeValues, a \in AutocompleteValues}
    \cup {InputAttrs(<<"t","e","x","t">>, None, n, i, None, None, None, None) :
        n \in NameValues, i \in IdValues}
    \cup {InputAttrs(<<"t","e","x","t">>, None, <<"q">>, None, p, l, None, None) :
        p \in LabelValues, l \in LabelValues}
    \cup {InputAttrs(<<"t","e","x","t">>, None, <<"q">>, None, None, None, r, m) :
        r \in RequiredValues, m \in InputmodeValues}

\* documents holding one of these elements, alone or inside a form
RichDocs ==
    {<<Node("input", 0, a)>> : a \in RichAttrs}
    \cup {<<Node("form", 0, ("action" :> <<"/","L","o","g","i","n">>)), Node("input", 1, a)>> :
            a \in RichAttrs}

\* the kinds of node that documents of varied structure are built from
NodeKinds ==
    { [tag |-> "form", attrs |-> ("action" :> <<"/","s","e","s","s","i","o","n">>)],
      [tag |-> "div", attrs |-> NoAttrs],
      [tag |-> "input", attrs |-> ("type" :> <<"t","e","x","t">>) @@ ("name" :> <<"l","o","g","i","n">>)],
      [tag |-> "input", attrs |-> ("type" :> <<"p","a","s","s","w","o","r","d">>) @@ ("name" :> <<"p","a","s","s","w","o","r","d">>)],
      [tag |-> "input", attrs |-> ("type" :> <<"h","i","d","d","e","n">>) @@ ("name" :> <<"c","s","r","f">>)],
      [tag |-> "input", attrs |-> ("type" :> <<"E","M","A","I","L">>) @@ ("name" :> <<"e","m","a","i","l">>)] }

\* tags whose elements hold no child elements
LeafTags == {"input", "button", "label"}

\* the depth assignments that make kinds[1..n] a document in document order
ValidDepths(n, kinds) ==
    {d \in [1..n -> 0..(n - 1)] :
        /\ d[1] = 0
        /\ \A k \in 1..(n - 1) :
              d[k + 1] <= (IF kinds[k].tag \in LeafTags THEN d[k] ELSE d[k] + 1)}

StructDocsOfLen(n) ==
    UNION { {[k \in 1..n |-> Node(kinds[k].tag, d[k], kinds[k].attrs)] :
                d \in ValidDepths(n, kinds)} :
            kinds \in [1..n -> NodeKinds] }

StructDocs == UNION {StructDocsOfLen(n) : n \in 1..MaxNodes}

\* the forms of the catalog
CatalogDocs ==
    {TEST_SITES[k].html : k \in 1..Len(TEST_SITES)}
    \cup {NEGATIVE_EXAMPLES[k].html : k \in 1..Len(NEGATIVE_EXAMPLES)}

Docs == RichDocs \cup StructDocs \cup CatalogDocs

RECURSIVE SeqsUpTo(_, _)
SeqsUpTo(S, n) ==
    IF n = 0 THEN {<<>>}
    ELSE LET shorter == SeqsUpTo(S, n - 1)
         IN shorter \cup {Append(s, x) : s \in shorter, x \in S}

\* the texts and pattern lists of direct _match_score calls
ProbeTexts == SeqsUpTo({"a", "b", "B"}, MaxTextLen) \cup (NameValues \ {None})
ProbePatternLists ==
    SeqsUpTo({<<"a">>, <<"b","b">>}, MaxPatterns)
    \cup {USERNAME_PATTERNS, LOGIN_PATTERNS, EMAIL_PATTERNS, PASSWORD_PATTERNS}

-----------------------------------------------------------------------------
(* The run of features.py: extract_features_from_html(html) on a parsed    *)
(* document, or one direct call of _match_score.                           *)

AugIdle ==
    /\ samples = <<>>
    /\ target_size = 0
    /\ augmented = <<>>
    /\ heap = <<>>
    /\ base = 0
    /\ rng = FALSE
    /\ pc = "idle"
    /\ data = <<>>
    /\ dropout = FALSE
    /\ perturb = FALSE
    /\ catalog = [sites |-> <<>>, negatives |-> <<>>]

ExtractInit ==
    /\ AugIdle
    /\ results = <<>>
    /\ score = Zero
    /\ \/ /\ xpc = "html"
          /\ soup \in Docs
          /\ text = <<>>
          /\ patterns = <<>>
       \/ /\ xpc = "score"
          /\ soup = <<>>
          /\ text \in ProbeTexts
          /\ patterns \in ProbePatternLists

ExtractHtml ==
    /\ xpc = "html"
    /\ results' = extract_features_from_html(soup)
    /\ xpc' = "extracted"
    /\ UNCHANGED <<soup, text, patterns, score>>
    /\ UNCHANGED augVars

CallMatchScore ==
    /\ xpc = "score"
    /\ score' = _match_score(text, patterns)
    /\ xpc' = "scored"
    /\ UNCHANGED <<soup, results, text, patterns>>
    /\ UNCHANGED augVars

ExtractNext == ExtractHtml \/ CallMatchScore

ExtractSpec == ExtractInit /\ [][ExtractNext]_vars

-----------------------------------------------------------------------------
(* The augmentation stage and the serializer (dataset.py:336-402).         *)

\* the corpus that base corpora are taken from: what build_dataset makes
\* of the catalog entries above
SamplePool == build_dataset(TEST_SITES, NEGATIVE_EXAMPLES)

\* the base corpora: the sub-corpora of SamplePool of at most n samples, in
\* corpus order
BaseCorpora(n) ==
    {[k \in 1..Cardinality(S) |-> SamplePool[in_order(S)[k]]] :
        S \in {T \in SUBSET (1..Len(SamplePool)) : Cardinality(T) <= n}}

\* the values random.uniform(0.3, 0.8) is taken to return
UniformValues == {Rat(3, 10), Rat(4, 5)}

\* the copy loop with source and destination exchanged
copy_attrs_reversed(h, dst, src) ==
    [h EXCEPT ![src] =
        [a \in DOMAIN h[src] |->
            IF a \in dir_public(h[dst]) THEN getattr(h, dst, a) ELSE h[src][a]]]

\* for attr in dir(base.features):
\*     if not attr.startswith("_") and hasattr(new_features, attr):
\*         setattr(new_features, attr, getattr(base.features, attr))
copy_attrs(h, dst, src) ==
    [h EXCEPT ![dst] =
        [a \in DOMAIN h[dst] |->
            IF a \in dir_public(h[src]) THEN getattr(h, src, a) ELSE h[dst][a]]]

\* the branch taken when the first random.random() is below 0.3
autocomplete_dropout(obj) ==
    [obj EXCEPT !["auto_username"] = Zero,
                !["auto_email"] = Zero,
                !["auto_current_password"] = Zero,
                !["auto_other"] = One]

\* the perturbation reaching one slot more, name_has_email
name_perturbation_wide(obj, u1, u2) ==
    [obj EXCEPT !["name_has_user"] = u1, !["name_has_login"] = u2,
                !["name_has_email"] = u1]

\* the branch taken when the second random.random() is below 0.2 and the
\* label is "username"
name_perturbation(obj, u1, u2) ==
    [obj EXCEPT !["name_has_user"] = u1, !["name_has_login"] = u2]

\* the rejection test inverted
rejects_labelled(label) == label # "none"

\* the rejection test left out
rejects_nothing(label) == FALSE

\* if base.label == "none": continue
rejects(label) == label = "none"

\* while len(augmented) < target_size
loop_continues(aug, target) == Len(aug) < target

\* the heap after one accepted pick: new_features is allocated, filled
\* from the base object and perturbed
new_features_heap(h, b, c1, c2, u1, u2) ==
    LET new_id == Len(h) + 1
        h1 == copy_attrs(Append(h, FieldFeatures), new_id, b.features)
        h2 == IF c1 THEN [h1 EXCEPT ![new_id] = autocomplete_dropout(@)] ELSE h1
    IN IF c2 /\ b.label = "username"
       THEN [h2 EXCEPT ![new_id] = name_perturbation(@, u1, u2)]
       ELSE h2

\* the appended sample with the base's source left as it is
augmented_sample_same_source(b, new_id) ==
    TrainingSample(new_id, b.label, b.source, b.element_id, b.element_name)

\* the TrainingSample appended for base sample b, its features at new_id
augmented_sample(b, new_id) ==
    TrainingSample(new_id, b.label, Append(b.source, "_augmented"),
                   b.element_id, b.element_name)


\* save_dataset: one row per sample, its vector from sample.features.to_vector()
save_rows(list, h) ==
    [k \in 1..Len(list) |->
        [features |-> call_to_vector(h, list[k].features),
         label |-> list[k].label,
         source |-> list[k].source,
         element_id |-> list[k].element_id,
         element_name |-> list[k].element_name]]

-----------------------------------------------------------------------------
(* The run of dataset.py: augment_dataset(samples, target_size), then      *)
(* save_dataset(augmented, path).                                          *)

ExtIdle ==
    /\ soup = <<>>
    /\ results = <<>>
    /\ text = <<>>
    /\ patterns = <<>>
    /\ score = Zero
    /\ xpc = "idle"

Init ==
    /\ \E corpus \in BaseCorpora(MaxBase) :
          /\ heap = [k \in 1..Len(corpus) |-> corpus[k].features]
          /\ samples = [k \in 1..Len(corpus) |-> [corpus[k] EXCEPT !.features = k]]
    /\ target_size \in 0..MaxTarget
    /\ augmented = <<>>
    /\ base = 0
    /\ rng = FALSE
    /\ pc = "call"
    /\ data = <<>>
    /\ dropout = FALSE
    /\ perturb = FALSE
    /\ catalog = [sites |-> <<>>, negatives |-> <<>>]
    /\ ExtIdle

\* augmented = samples.copy()
Enter ==
    /\ pc = "call"
    /\ augmented' = samples
    /\ pc' = "loop"
    /\ UNCHANGED <<samples, target_size, heap, base, rng, data>>
    /\ UNCHANGED <<dropout, perturb, catalog>>
    /\ UNCHANGED extVars

\* one iteration of the while loop in which random.choice returns
\* samples[i]; it takes one draw from the generator when the pick is
\* rejected and three or five when it is accepted, an odd number either way
Iterate(i) ==
    /\ pc = "loop"
    /\ loop_continues(augmented, target_size)
    /\ i \in 1..Len(samples)
    /\ base' = i
    /\ IF rejects(samples[i].label)
       THEN /\ rng' = ~rng
            /\ dropout' = FALSE
            /\ perturb' = FALSE
            /\ UNCHANGED <<augmented, heap>>
       ELSE \E c1 \in BOOLEAN, c2 \in BOOLEAN, u1 \in UniformValues, u2 \in UniformValues :
            /\ heap' = new_features_heap(heap, samples[i], c1, c2, u1, u2)
            /\ augmented' = Append(augmented, augmented_sample(samples[i], Len(heap) + 1))
            /\ rng' = ~rng
            /\ dropout' = c1
            /\ perturb' = (c2 /\ samples[i].label = "username")
    /\ UNCHANGED <<samples, target_size, pc, data, catalog>>
    /\ UNCHANGED extVars

\* random.choice(samples) on an empty list raises IndexError
ChoiceFails ==
    /\ pc = "loop"
    /\ loop_continues(augmented, target_size)
    /\ Len(samples) = 0
    /\ pc' = "raised"
    /\ UNCHANGED <<samples, target_size, augmented, heap, base, rng, data>>
    /\ UNCHANGED <<dropout, perturb, catalog>>
    /\ UNCHANGED extVars

\* the loop test fails: return augmented
Return ==
    /\ pc = "loop"
    /\ ~loop_continues(augmented, target_size)
    /\ pc' = "returned"
    /\ UNCHANGED <<samples, target_size, augmented, heap, base, rng, data>>
    /\ UNCHANGED <<dropout, perturb, catalog>>
    /\ UNCHANGED extVars

\* save_dataset(augmented, path)
Save ==
    /\ pc = "returned"
    /\ data' = save_rows(augmented, heap)
    /\ pc' = "saved"
    /\ UNCHANGED <<samples, target_size, augmented, heap, base, rng>>
    /\ UNCHANGED <<dropout, perturb, catalog>>
    /\ UNCHANGED extVars

Next ==
    \/ Enter
    \/ \E i \in 1..MaxBase : Iterate(i)
    \/ ChoiceFails
    \/ Return
    \/ Save

Spec == Init /\ [][Next]_vars

\* augment_dataset runs on: an enabled step of it is eventually taken, and
\* a random pick that is fair returns every base sample again and again.
Fairness ==
    /\ WF_vars(Enter)
    /\ WF_vars(ChoiceFails)
    /\ WF_vars(Return)
    /\ \A i \in 1..MaxBase : WF_vars(Iterate(i))

FairSpec == Spec /\ Fairness

-----------------------------------------------------------------------------
(* The run of build_dataset() over a catalog (dataset.py:299-333).         *)

\* entries of the shape of TEST_SITES: the two above, one whose label map
\* names only some of its fields, and one without a label map
SitePool ==
    << TEST_SITES[1], TEST_SITES[2],
       [name |-> "Partial Labels",
        labels |-> (<<"l","o","g","i","n">> :> "username") @@ (<<"o","t","p">> :> "totp"),
        html |-> <<
          Node("form", 0, ("action" :> <<"/","l","o","g","i","n">>)),
          Node("input", 1, ("type" :> <<"h","i","d","d","e","n">>) @@ ("name" :> <<"l","o","g","i","n">>)),
          Node("input", 1, ("type" :> <<"t","e","x","t">>) @@ ("name" :> <<"l","o","g","i","n">>)),
          Node("input", 1, ("type" :> <<"c","h","e","c","k","b","o","x">>) @@ ("name" :> <<"r","e","m","e","m","b","e","r">>)),
          Node("input", 1, ("type" :> <<"t","e","x","t">>) @@ ("id" :> <<"o","t","p">>)) >>],
       [name |-> "No Labels",
        html |-> <<
          Node("input", 0, ("type" :> <<"p","a","s","s","w","o","r","d">>) @@ ("name" :> <<"p","a","s","s","w","o","r","d">>)) >>] >>

\* the first three entries of NEGATIVE_EXAMPLES
NegativePool ==
    << NEGATIVE_EXAMPLES[1],
       [name |-> "Newsletter Signup",
        html |-> <<
          Node("form", 0, NoAttrs),
          Node("input", 1, ("type" :> <<"e","m","a","i","l">>) @@ ("name" :> <<"e","m","a","i","l">>)
                           @@ ("placeholder" :> <<"S","u","b","s","c","r","i","b","e"," ","t","o"," ","n","e","w","s","l","e","t","t","e","r">>)),
          Node("button", 1, ("type" :> <<"s","u","b","m","i","t">>)) >>],
       [name |-> "Contact Form",
        html |-> <<
          Node("form", 0, NoAttrs),
          Node("input", 1, ("type" :> <<"t","e","x","t">>) @@ ("name" :> <<"n","a","m","e">>)
                           @@ ("placeholder" :> <<"Y","o","u","r"," ","n","a","m","e">>)),
          Node("input", 1, ("type" :> <<"e","m","a","i","l">>) @@ ("name" :> <<"e","m","a","i","l">>)
                           @@ ("placeholder" :> <<"Y","o","u","r"," ","e","m","a","i","l">>)),
          Node("textarea", 1, ("name" :> <<"m","e","s","s","a","g","e">>)),
          Node("button", 1, ("type" :> <<"s","u","b","m","i","t">>)) >>] >>

\* the sub-lists of a list that hold at most n of its entries, in the
\* list's order
SubLists(list, n) ==
    {[k \in 1..Cardinality(S) |-> list[in_order(S)[k]]] :
        S \in {T \in SUBSET (1..Len(list)) : Cardinality(T) <= n}}

BuildInit ==
    /\ catalog \in [sites : SubLists(SitePool, MaxSites),
                    negatives : SubLists(NegativePool, MaxNegatives)]
    /\ samples = <<>>
    /\ heap = <<>>
    /\ target_size = 0
    /\ augmented = <<>>
    /\ base = 0
    /\ rng = FALSE
    /\ pc = "build"
    /\ data = <<>>
    /\ dropout = FALSE
    /\ perturb = FALSE
    /\ ExtIdle

\* samples = build_dataset()
Build ==
    /\ pc = "build"
    /\ \E corpus \in {build_dataset(catalog.sites, catalog.negatives)} :
          /\ heap' = [k \in 1..Len(corpus) |-> corpus[k].features]
          /\ samples' = [k \in 1..Len(corpus) |-> [corpus[k] EXCEPT !.features = k]]
    /\ pc' = "built"
    /\ UNCHANGED <<target_size, augmented, base, rng, data, dropout, perturb, catalog>>
    /\ UNCHANGED extVars

BuildNext == Build

BuildSpec == BuildInit /\ [][BuildNext]_vars
-----------------------------------------------------------------------------
(* Properties of the augmentation stage and the serializer.                *)

\* the length of a feature vector that the trainer expects
NumSlots == 45

\* C1: every row that save_dataset emits, for a base sample or for one
\* synthesized by augment_dataset, holds NumSlots entries, the i-th being
\* the float32 value of the i-th schema slot of that sample's own
\* FieldFeatures record.
C1_RowIsOwnRecord ==
    pc = "saved" =>
        /\ Len(data) = Len(augmented)
        /\ \A k \in 1..Len(data) :
              /\ Len(data[k].features) = NumSlots
              /\ \A s \in 1..NumSlots :
                    data[k].features[s] =
                        F32(heap[augmented[k].features][feature_names[s]])

AllNegative == \A k \in 1..Len(samples) : samples[k].label = "none"

\* C2: called with a non-empty base corpus whose samples are all labelled
\* "none" and a target_size above the corpus size, augment_dataset leaves
\* its loop (to report the failure); it does not reject picks forever.
C2_AllNegativeLeavesLoop ==
    (pc = "loop" /\ samples # <<>> /\ AllNegative /\ target_size > Len(samples))
        ~> (pc # "loop")

\* C3: when the base corpus holds a sample whose label is not "none" and
\* the random pick is fair, augment_dataset eventually returns, and the
\* list it returns has at least target_size elements.
C3_Returns ==
    (pc = "call" /\ \E k \in 1..Len(samples) : samples[k].label # "none")
        ~> (pc = "returned" /\ Len(augmented) >= target_size)

C3_Witness ==
    /\ pc = "returned"
    /\ Len(augmented) >= target_size
    /\ Len(augmented) > Len(samples)
    /\ \E k \in 1..Len(samples) : samples[k].label = "none"
    /\ \E k \in 1..Len(samples) : samples[k].label # "none"

\* C4: no step of augment_dataset or save_dataset changes a base sample
\* or its FieldFeatures record, and from the copy on the first
\* len(samples) elements of the list are the base samples, in order.
C4_BaseUntouched ==
    [][ /\ samples' = samples
        /\ \A k \in 1..Len(samples) :
              heap'[samples[k].features] = heap[samples[k].features]
        /\ pc' \in {"loop", "returned", "saved"} =>
              /\ Len(augmented') >= Len(samples)
              /\ \A k \in 1..Len(samples) : augmented'[k] = samples[k] ]_vars

C4_Witness ==
    /\ pc = "returned"
    /\ base # 0
    /\ Len(augmented) > Len(samples)
    /\ heap[augmented[Len(augmented)].features]["auto_username"] = Zero
    /\ heap[samples[base].features]["auto_username"] = One

\* C5: no sample at an index above len(samples) is labelled "none", and an
\* iteration whose pick is labelled "none" appends nothing and creates
\* nothing.
C5_NoSynthesizedNone ==
    [][ /\ \A k \in (Len(samples) + 1)..Len(augmented') :
              augmented'[k].label # "none"
        /\ (pc = "loop" /\ pc' = "loop" /\ base' \in 1..Len(samples)
              /\ samples[base'].label = "none")
           => (augmented' = augmented /\ heap' = heap) ]_vars

C5_Witness ==
    /\ pc = "loop"
    /\ base # 0
    /\ samples[base].label = "none"
    /\ Len(augmented) > Len(samples)

-----------------------------------------------------------------------------
(* Properties of the feature extractor.                                    *)

AutoFlags ==
    {"auto_username", "auto_email", "auto_current_password",
     "auto_new_password", "auto_one_time_code", "auto_off", "auto_other"}

TypeFlags ==
    {"type_text", "type_email", "type_password", "type_tel", "type_number",
     "type_search", "type_url", "type_other"}

\* the input element that result k was extracted from
ElementOf(k) == soup[results[k].node]

\* C6: whatever the autocomplete attribute of an input element, exactly
\* one of the seven autocomplete flags of its record is 1 and the other
\* six are 0.
C6_OneAutocompleteFlag ==
    xpc = "extracted" =>
        \A k \in 1..Len(results) :
            /\ \A a \in AutoFlags : results[k].features[a] \in {Zero, One}
            /\ Cardinality({a \in AutoFlags : results[k].features[a] = One}) = 1

C6_Witness ==
    /\ xpc = "extracted"
    /\ \E k \in 1..Len(results) :
          /\ "autocomplete" \in DOMAIN ElementOf(k).attrs
          /\ ElementOf(k).attrs["autocomplete"] = <<"o","n","e","-","t","i","m","e","-","c","o","d","e"," ","n","e","w","-","p","a","s","s","w","o","r","d">>
          /\ results[k].features["auto_new_password"] = One

\* the type flag that the claim names for a lower-cased type
TypeFlagOf(t) ==
    CASE t = <<"t","e","x","t">> -> "type_text"
      [] t = <<"e","m","a","i","l">> -> "type_email"
      [] t = <<"p","a","s","s","w","o","r","d">> -> "type_password"
      [] t = <<"t","e","l">> -> "type_tel"
      [] t = <<"n","u","m","b","e","r">> -> "type_number"
      [] t = <<"s","e","a","r","c","h">> -> "type_search"
      [] t = <<"u","r","l">> -> "type_url"
      [] OTHER -> "type_other"

\* C7: whatever the type attribute of an input element, exactly one type
\* flag of its record is 1: that of the lower-cased type when it is one
\* of text, email, password, tel, number, search, url (text when the
\* attribute is absent), and type_other otherwise.
C7_OneTypeFlag ==
    xpc = "extracted" =>
        \A k \in 1..Len(results) :
            LET e == ElementOf(k)
                t == IF "type" \in DOMAIN e.attrs
                     THEN lower(e.attrs["type"]) ELSE <<"t","e","x","t">>
            IN \A a \in TypeFlags :
                  results[k].features[a] = (IF a = TypeFlagOf(t) THEN One ELSE Zero)

C7_Witness ==
    /\ xpc = "extracted"
    /\ \E k \in 1..Len(results) :
          /\ "type" \notin DOMAIN ElementOf(k).attrs
          /\ results[k].features["type_text"] = One
          /\ results[k].features["type_other"] = Zero

\* the priority order of the autocomplete categories found by substring
AutoPriority ==
    << <<<<"u","s","e","r","n","a","m","e">>, "auto_username">>,
       <<<<"e","m","a","i","l">>, "auto_email">>,
       <<<<"c","u","r","r","e","n","t","-","p","a","s","s","w","o","r","d">>, "auto_current_password">>,
       <<<<"n","e","w","-","p","a","s","s","w","o","r","d">>, "auto_new_password">>,
       <<<<"o","n","e","-","t","i","m","e","-","c","o","d","e">>, "auto_one_time_code">> >>

\* the flag of the first category in priority order that the lower-cased
\* value matches
FirstMatch(auto) ==
    LET hits == {k \in 1..Len(AutoPriority) : Contains(AutoPriority[k][1], auto)}
    IN IF hits # {}
       THEN AutoPriority[CHOOSE k \in hits : \A j \in hits : k <= j][2]
       ELSE IF auto = <<"o","f","f">> THEN "auto_off" ELSE "auto_other"

\* C8: the autocomplete flag that is set is that of the first entry, in
\* the order username, email, current-password, new-password,
\* one-time-code, exact "off", other, that the lower-cased attribute
\* value matches.
C8_FirstMatchWins ==
    xpc = "extracted" =>
        \A k \in 1..Len(results) :
            LET e == ElementOf(k)
                auto == IF "autocomplete" \in DOMAIN e.attrs
                        THEN lower(e.attrs["autocomplete"]) ELSE <<>>
            IN \A a \in AutoFlags :
                  results[k].features[a] = (IF a = FirstMatch(auto) THEN One ELSE Zero)

C8_Witness ==
    /\ xpc = "extracted"
    /\ \E k \in 1..Len(results) :
          /\ "autocomplete" \in DOMAIN ElementOf(k).attrs
          /\ ElementOf(k).attrs["autocomplete"] = <<"e","m","a","i","l"," ","u","s","e","r","n","a","m","e">>
          /\ results[k].features["auto_username"] = One
          /\ results[k].features["auto_email"] = Zero

\* the textual match score slots: slot, attribute scored, pattern list
ScoreSlots ==
    { <<"name_has_user", "name", USERNAME_PATTERNS>>,
      <<"name_has_login", "name", LOGIN_PATTERNS>>,
      <<"name_has_email", "name", EMAIL_PATTERNS>>,
      <<"name_has_pass", "name", PASSWORD_PATTERNS>>,
      <<"id_has_user", "id", USERNAME_PATTERNS>>,
      <<"id_has_login", "id", LOGIN_PATTERNS>>,
      <<"id_has_email", "id", EMAIL_PATTERNS>>,
      <<"id_has_pass", "id", PASSWORD_PATTERNS>>,
      <<"placeholder_has_user", "placeholder", USERNAME_PATTERNS>>,
      <<"placeholder_has_email", "placeholder", EMAIL_PATTERNS>>,
      <<"placeholder_has_pass", "placeholder", PASSWORD_PATTERNS>>,
      <<"aria_label_has_user", "aria-label", USERNAME_PATTERNS>>,
      <<"aria_label_has_email", "aria-label", EMAIL_PATTERNS>>,
      <<"aria_label_has_pass", "aria-label", PASSWORD_PATTERNS>> }

\* the number of patterns of the list found in the text
MatchCount(t, pats) == Cardinality({k \in 1..Len(pats) : search(pats[k], t)})

\* s is 0 for an empty text and otherwise lies in [0, 1] and, the quotient
\* being defined (patternCount > 0), is min(matchCount / patternCount * 3, 1),
\* which is 1 exactly when 3 * matchCount >= patternCount
IsMatchScore(s, t, pats) ==
    LET n == Len(pats)
        m == MatchCount(t, pats)
    IN IF t = <<>> THEN s = Zero
       ELSE /\ RatLeq(Zero, s) /\ RatLeq(s, One)
            /\ n > 0 =>
                  /\ s[1] * n = s[2] * (IF 3 * m <= n THEN 3 * m ELSE n)
                  /\ (s = One) <=> (3 * m >= n)

\* C9: _match_score returns 0 for an empty text and otherwise
\* min(matchCount / patternCount * 3, 1); so every textual match score
\* slot of an extracted record lies in [0, 1] and is 1 exactly when
\* 3 * matchCount >= patternCount.
C9_MatchScore ==
    /\ xpc = "scored" => IsMatchScore(score, text, patterns)
    /\ xpc = "extracted" =>
          \A k \in 1..Len(results) : \A slot \in ScoreSlots :
              IsMatchScore(results[k].features[slot[1]],
                           get(ElementOf(k), slot[2], <<>>), slot[3])

C9_Witness ==
    /\ xpc = "scored"
    /\ text # <<>>
    /\ Len(patterns) = MaxPatterns
    /\ MatchCount(text, patterns) = 1
    /\ score = Rat(3, MaxPatterns)

\* C10: the sibling_count slot is the number of direct child input
\* elements of the field's parent, the field itself not counted, divided
\* by 10.
C10_SiblingCountExcludesSelf ==
    xpc = "extracted" =>
        \A k \in 1..Len(results) :
            LET i == results[k].node
                others == {j \in 1..Len(soup) :
                             /\ j # i
                             /\ soup[j].tag = "input"
                             /\ find_parent(soup, j) = find_parent(soup, i)}
            IN results[k].features["sibling_count"] = Rat(Cardinality(others), 10)


\* C11: the is_required slot is 1 exactly when the element carries a
\* required attribute, whatever its value (the value-less form, parsed as
\* the empty string, included), and 0 exactly when it carries none.
C11_RequiredPresence ==
    xpc = "extracted" =>
        \A k \in 1..Len(results) :
            results[k].features["is_required"] =
                (IF "required" \in DOMAIN ElementOf(k).attrs THEN One ELSE Zero)

\* the lower-cased type of node j of the parsed document, text when the
\* element has no type attribute
TypeOfNode(j) ==
    IF "type" \in DOMAIN soup[j].attrs THEN lower(soup[j].attrs["type"]) ELSE <<"t","e","x","t">>

\* the input elements of the parsed document whose type is none of the
\* five excluded ones
KeptInputs ==
    {j \in 1..Len(soup) :
        /\ soup[j].tag = "input"
        /\ TypeOfNode(j) \notin {<<"h","i","d","d","e","n">>, <<"s","u","b","m","i","t">>, <<"b","u","t","t","o","n">>, <<"i","m","a","g","e">>, <<"r","e","s","e","t">>}}

\* C12: extract_features_from_html emits no record for an input element
\* whose lower-cased type is hidden, submit, button, image or reset, and
\* exactly one record, in document order, for every other input element.
C12_SkipsExcludedTypes ==
    xpc = "extracted" =>
        /\ Len(results) = Cardinality(KeptInputs)
        /\ \A k \in 1..Len(results) : results[k].node \in KeptInputs
        /\ \A k \in 1..(Len(results) - 1) : results[k].node < results[k + 1].node

C12_Witness ==
    /\ xpc = "extracted"
    /\ Len(results) >= 2
    /\ \E j \in 1..Len(soup) :
          /\ soup[j].tag = "input"
          /\ TypeOfNode(j) = <<"h","i","d","d","e","n">>
          /\ results[1].node < j
          /\ j < results[2].node

\* the input elements of a document that are not of an excluded type, in
\* document order
KeptInputsOf(doc) ==
    in_order({j \in 1..Len(doc) :
        /\ doc[j].tag = "input"
        /\ (IF "type" \in DOMAIN doc[j].attrs
            THEN lower(doc[j].attrs["type"]) ELSE <<"t","e","x","t">>)
              \notin {<<"h","i","d","d","e","n">>, <<"s","u","b","m","i","t">>, <<"b","u","t","t","o","n">>, <<"i","m","a","g","e">>, <<"r","e","s","e","t">>}})

\* the name attribute of node j of a document, empty when it has none
NameOf(doc, j) ==
    IF "name" \in DOMAIN doc[j].attrs THEN doc[j].attrs["name"] ELSE <<>>

\* label, source and field name of the samples due for one catalog entry
ExpectedOfSite(site) ==
    LET kept == KeptInputsOf(site.html)
    IN [k \in 1..Len(kept) |->
          LET nm == NameOf(site.html, kept[k])
          IN [label |-> IF "labels" \in DOMAIN site /\ nm \in DOMAIN site.labels
                        THEN site.labels[nm] ELSE "none",
              source |-> <<site.name>>,
              element_name |-> nm]]

\* label, source and field name of the samples due for one negative example
ExpectedOfNegative(example) ==
    LET kept == KeptInputsOf(example.html)
    IN [k \in 1..Len(kept) |->
          [label |-> "none",
           source |-> <<example.name>>,
           element_name |-> NameOf(example.html, kept[k])]]

\* C13: build_dataset emits, in catalog order and then negative-example
\* order, one sample per kept field, labelled by the entry's label map
\* under the field's name, "none" when the name is no key of the map or
\* the field has no name, and "none" for every field of a negative example.
C13_LabelsFromMap ==
    pc = "built" =>
        [k \in 1..Len(samples) |->
            [label |-> samples[k].label,
             source |-> samples[k].source,
             element_name |-> samples[k].element_name]]
        = flatten([s \in 1..Len(catalog.sites) |-> ExpectedOfSite(catalog.sites[s])])
          \o flatten([n \in 1..Len(catalog.negatives) |->
                         ExpectedOfNegative(catalog.negatives[n])])

C13_Witness ==
    /\ pc = "built"
    /\ Len(catalog.sites) = MaxSites
    /\ Len(catalog.negatives) >= 1
    /\ \E k \in 1..Len(samples) :
          /\ samples[k].source = <<"Partial Labels">>
          /\ samples[k].label = "username"
    /\ \E k \in 1..Len(samples) :
          /\ samples[k].source = <<"Partial Labels">>
          /\ samples[k].element_name = <<"r","e","m","e","m","b","e","r">>
          /\ samples[k].label = "none"
    /\ \E k \in 1..Len(samples) :
          /\ samples[k].source = <<"Partial Labels">>
          /\ samples[k].element_name = <<>>
          /\ samples[k].label = "none"
    /\ samples[Len(samples)].source = <<"Contact Form">>

\* the FieldFeatures record of the sample appended last
LastFeatures == heap[augmented[Len(augmented)].features]

\* C14: when the autocomplete-dropout branch fired for a synthesized
\* sample, its record ends with each of the six autocomplete-category
\* flags at 0 and auto_other at 1, whatever flag its base sample carried.
C14_DropoutClearsEveryFlag ==
    dropout =>
        /\ \A a \in AutoFlags \ {"auto_other"} : LastFeatures[a] = Zero
        /\ LastFeatures["auto_other"] = One

\* the number of "_augmented" suffixes of a source string
SuffixCount(source) ==
    Cardinality({k \in 1..Len(source) : source[k] = "_augmented"})

\* C15: every sample appended by augment_dataset has the label, element
\* id and element name of some sample b of the base sequence, and as its
\* source b's source followed by "_augmented"; no source carries the
\* suffix twice.
C15_DerivedFromBase ==
    pc \in {"loop", "returned", "saved"} =>
        \A k \in (Len(samples) + 1)..Len(augmented) :
            /\ \E b \in 1..Len(samples) :
                  /\ augmented[k].label = samples[b].label
                  /\ augmented[k].element_id = samples[b].element_id
                  /\ augmented[k].element_name = samples[b].element_name
                  /\ augmented[k].source = samples[b].source \o <<"_augmented">>
            /\ SuffixCount(augmented[k].source) = 1

C15_Witness ==
    /\ pc = "returned"
    /\ Len(augmented) >= Len(samples) + 2
    /\ Len(samples) >= 1
    /\ augmented[Len(augmented)].source = samples[base].source \o <<"_augmented">>
    /\ augmented[Len(augmented)].label = samples[base].label

\* the slots that the two perturbations of augment_dataset may change
PerturbedSlots == AutoFlags \cup {"name_has_user", "name_has_login"}

\* the bounds of random.uniform(0.3, 0.8)
InUniformRange(v) == RatLeq(Rat(3, 10), v) /\ RatLeq(v, Rat(4, 5))

\* C16: the record of a synthesized sample equals that of the base
\* sample it was copied from in every slot but the autocomplete flags and
\* name_has_user / name_has_login; the two name slots differ from the
\* base's only when the label is "username", and when they are perturbed
\* each lies in [0.3, 0.8].
C16_PerturbationFrame ==
    [][ augmented' # augmented /\ pc = "loop" =>
          LET new == heap'[augmented'[Len(augmented')].features]
              old == heap[samples[base'].features]
          IN /\ \A a \in FieldNames \ PerturbedSlots : new[a] = old[a]
             /\ (samples[base'].label # "username" \/ ~perturb') =>
                   /\ new["name_has_user"] = old["name_has_user"]
                   /\ new["name_has_login"] = old["name_has_login"]
             /\ perturb' =>
                   /\ InUniformRange(new["name_has_user"])
                   /\ InUniformRange(new["name_has_login"]) ]_vars

C16_Witness ==
    /\ pc = "loop"
    /\ perturb
    /\ dropout
    /\ samples[base].label = "username"
    /\ LastFeatures["name_has_user"] # heap[samples[base].features]["name_has_user"]
    /\ LastFeatures["name_has_login"] # heap[samples[base].features]["name_has_login"]
    /\ LastFeatures["name_length"] = heap[samples[base].features]["name_length"]
=============================================================================
